---- MODULE Spec2Model ----
(***************************************************************************)
(* Incident-report form controller (useIncidentReportForm), the report     *)
(* data service (createReport / updateReport / saveEvidence) and the       *)
(* backend they talk to, as a state machine.                               *)
(*                                                                         *)
(* Every `await` in the source is a point where the handler is suspended:  *)
(* one action is the code that runs between two such points (JavaScript    *)
(* runs it to completion).  The answer of a backend call is an input of    *)
(* the action that resumes the handler.                                    *)
(***************************************************************************)
EXTENDS Integers, Sequences, FiniteSets, TLC

\* ---------------------------------------------------------------- bounds
MaxCats == 2        \* longest list of chosen subcategories
MaxFiles == 2       \* longest list of attached files
MaxSvcCalls == 2    \* service invocations in one behaviour (SvcSpec)

\* ------------------------------------------------------- value domains
Null == "<null>"            \* null / undefined of a string-valued field
NoId == -1                  \* useParams() gave no id
NoDate == -1                \* incident_date column is null
TicksPerDay == 2            \* a Date is a tick count; a day has two ticks
ExistingId == 0             \* the report row that exists before the hook mounts

Days == {0, 1}
\* the instants `new Date()` may yield: never a midnight here
NowValues == {d * TicksPerDay + 1 : d \in Days}
SubCats == {"s1", "s2"}
FileObjs == {[name |-> "a.png", type |-> "image/png"],
             [name |-> "b.pdf", type |-> "application/pdf"]}
Errors == {"e1", "e2"}

SeqsUpTo(S, n) == UNION {[1..k -> S] : k \in 0..n}

\* new Date("YYYY-MM-DD"): midnight UTC of that day
ParseDate(d) == d * TicksPerDay
\* date.toISOString().split('T')[0]: the UTC calendar day of an instant
ToISODate(t) == t \div TicksPerDay

\* supabase.storage.from("evidence").getPublicUrl(path).data.publicUrl
PublicUrl(path) == [bucket |-> "evidence", path |-> path]
\* mutant of FileName: the path is not namespaced by the report it belongs to
FileName_NoReport(rid, file) == <<ExistingId, "/", file.name>>
\* `${newReport.id}/${file.name}`
FileName(rid, file) == <<rid, "/", file.name>>

\* a FileList value of the form, or undefined
Undefined == [defined |-> FALSE, list |-> <<>>]
FileList(s) == [defined |-> TRUE, list |-> s]

\* ------------------------------------------------------------ the state
VARIABLES
    id,          \* useParams().id: NoId or a report identifier
    session,     \* session?.user?.id: Null or a user identifier
    now,         \* the instant `new Date()` yields
    form,        \* the form's field values
    isDirty,     \* the form was edited since construction or the last reset
    query,       \* useQuery state: [status, data]
    pc,          \* where onSubmit stands
    data,        \* the argument of the running onSubmit
    newReportId, \* newReport.id of the running onSubmit
    calls,       \* the backend requests of the running invocation, in issue order
    toasts,      \* notifications of the running onSubmit, in order
    navigated,   \* navigate("/dashboard") was called
    reports, assignments, evidence, storage,  \* the backend
    svc          \* the running service invocation

formVars == <<form, isDirty, query>>
submitVars == <<pc, data, newReportId, calls, toasts, navigated>>
db == <<reports, assignments, evidence, storage>>
env == <<id, session, now>>
vars == <<env, formVars, submitVars, db, svc>>

\* ----------------------------------------------------------- constants
AuthError == [title |-> "Error",
              description |-> "You must be logged in to submit a report",
              variant |-> "destructive"]
GenericFailure == [title |-> "Error",
                   description |-> "Something went wrong. Please try again.",
                   variant |-> "destructive"]
UpdatedToast == [title |-> "Success",
                 description |-> "Report updated successfully",
                 variant |-> "default"]
CreatedToast == [title |-> "Success",
                 description |-> "Report created successfully",
                 variant |-> "default"]

defaultValues ==
    [title |-> "", description |-> "", incident_date |-> now,
     incident_time |-> "", location |-> "", main_category_id |-> "",
     categories |-> <<>>, files |-> Undefined]

\* x || "" for a nullable string
OrEmpty(x) == IF x = Null THEN "" ELSE x

\* ------------------------------------------------------------- backend
\* rows of `tbl` whose report_id is rid, in table order
RECURSIVE RowsOf(_, _)
RowsOf(tbl, rid) ==
    IF tbl = <<>> THEN <<>>
    ELSE IF Head(tbl).report_id = rid
         THEN <<Head(tbl)>> \o RowsOf(Tail(tbl), rid)
         ELSE RowsOf(Tail(tbl), rid)

RECURSIVE RowsNotOf(_, _)
RowsNotOf(tbl, rid) ==
    IF tbl = <<>> THEN <<>>
    ELSE IF Head(tbl).report_id = rid
         THEN RowsNotOf(Tail(tbl), rid)
         ELSE <<Head(tbl)>> \o RowsNotOf(Tail(tbl), rid)

HasReport(rid) == \E i \in 1..Len(reports) : reports[i].id = rid
ReportRow(rid) == reports[CHOOSE i \in 1..Len(reports) : reports[i].id = rid]
\* the identifier the server gives the next inserted report row
NextReportId == Len(reports)

\* the reports row as the form path writes it
InitialRows ==
    [id : {ExistingId}, title : {"old"}, description : {"desc"},
     incident_date : {NoDate, 1},
     incident_time : {Null, "09:00"}, location : {Null, "site"},
     main_category_id : {"m1"}, user_id : {"u1"}]

AssignmentRow(rid, subcategoryId, mainId) ==
    [report_id |-> rid, subcategory_id |-> subcategoryId,
     main_category_id |-> mainId, is_primary |-> FALSE]

\* ------------------------------------------------- load (edit mode)
\* select("*, report_category_assignments(subcategory_id, main_category_id)")
\*   .eq("id", id).single()
SelectReport(rid) ==
    LET row == ReportRow(rid)
        asg == RowsOf(assignments, rid)
    IN  [title |-> row.title, description |-> row.description,
         incident_date |-> row.incident_date,
         incident_time |-> row.incident_time,
         location |-> row.location,
         main_category_id |-> row.main_category_id,
         report_category_assignments |->
             [i \in 1..Len(asg) |->
                 [subcategory_id |-> asg[i].subcategory_id,
                  main_category_id |-> asg[i].main_category_id]]]

\* mutant of ResetValues: the main category of each assignment is listed
ResetValues_MainIds(d) ==
    [title |-> OrEmpty(d.title),
     description |-> OrEmpty(d.description),
     incident_date |-> IF d.incident_date # NoDate
                       THEN ParseDate(d.incident_date) ELSE now,
     incident_time |-> OrEmpty(d.incident_time),
     location |-> OrEmpty(d.location),
     main_category_id |-> OrEmpty(d.main_category_id),
     categories |-> [i \in 1..Len(d.report_category_assignments) |->
                        d.report_category_assignments[i].main_category_id],
     files |-> Undefined]

\* the argument of form.reset in onSettled
ResetValues(d) ==
    [title |-> OrEmpty(d.title),
     description |-> OrEmpty(d.description),
     incident_date |-> IF d.incident_date # NoDate
                       THEN ParseDate(d.incident_date) ELSE now,
     incident_time |-> OrEmpty(d.incident_time),
     location |-> OrEmpty(d.location),
     main_category_id |-> OrEmpty(d.main_category_id),
     categories |-> [i \in 1..Len(d.report_category_assignments) |->
                        d.report_category_assignments[i].subcategory_id],
     files |-> Undefined]

\* onSettled(data): `settled` is <<>> (undefined) or <<record>>
onSettled(settled) ==
    IF settled # <<>>
    THEN /\ form' = ResetValues(settled[1])
         /\ isDirty' = FALSE
    ELSE UNCHANGED <<form, isDirty>>

\* the query settles and the query cache hands the outcome to the callback
\* the query carries in `meta` (the cache's set-up is not part of the hook)
QueryCacheOnSettled(settled) == onSettled(settled)

\* the fetch answers with the row
FetchOk ==
    /\ query.status = "fetching"
    /\ HasReport(id)
    /\ LET report == SelectReport(id)
       IN  /\ query' = [status |-> "success", data |-> <<report>>]
           /\ QueryCacheOnSettled(<<report>>)
    /\ UNCHANGED <<env, submitVars, db, svc>>

\* the fetch answers with an error: queryFn throws it
FetchError ==
    /\ query.status = "fetching"
    /\ query' = [status |-> "error", data |-> <<>>]
    /\ QueryCacheOnSettled(<<>>)
    /\ UNCHANGED <<env, submitVars, db, svc>>

\* the user fills in the form (react-hook-form's registered inputs) before
\* submitting it
FormInputs ==
    [title : {"t1"}, description : {"d1"},
     incident_date : {ParseDate(d) : d \in Days},
     incident_time : {"10:00"}, location : {"loc"},
     main_category_id : {"m2"},
     categories : SeqsUpTo(SubCats, MaxCats),
     files : {Undefined} \cup {FileList(s) : s \in SeqsUpTo(FileObjs, MaxFiles)}]

\* An edit sets every field, so editing an edited form reaches no state that
\* editing the unedited one does not: one edit per construction or reset.
UserEdit ==
    /\ pc = "idle"
    /\ ~isDirty
    /\ \E v \in FormInputs : form' = v
    /\ isDirty' = TRUE
    /\ UNCHANGED <<env, query, submitVars, db, svc>>

\* ------------------------------------------------------------ onSubmit
Call(op, arg) == [op |-> op, arg |-> arg, result |-> "pending"]
SetResult(cs, i, r) == [cs EXCEPT ![i].result = r]
Pending(i) == i \in 1..Len(calls) /\ calls[i].result = "pending"
UploadIdx(cs) == {i \in 1..Len(cs) : cs[i].op = "upload"}

\* reportData of onSubmit
reportData(d) ==
    [title |-> d.title,
     description |-> d.description,
     incident_date |-> ToISODate(d.incident_date),
     incident_time |-> d.incident_time,
     location |-> d.location,
     main_category_id |-> d.main_category_id,
     user_id |-> session]

\* p_categories of the update procedure call
p_categories(d) ==
    [i \in 1..Len(d.categories) |->
        [subcategory_id |-> d.categories[i],
         main_category_id |-> d.main_category_id,
         is_primary |-> FALSE]]

\* mutant of CategoryRows: the first chosen category is skipped
CategoryRows_SkipFirst(rid, d) ==
    [i \in 1..(Len(d.categories) - 1) |->
        AssignmentRow(rid, d.categories[i + 1], d.main_category_id)]

\* the rows of the create path's category-assignment insert
CategoryRows(rid, d) ==
    [i \in 1..Len(d.categories) |->
        AssignmentRow(rid, d.categories[i], d.main_category_id)]

HasFiles(d) == d.files.defined /\ Len(d.files.list) > 0

\* the upload requests, issued in list order by Array.from(files).map(...)
UploadCalls(rid, d) ==
    [i \in 1..Len(d.files.list) |->
        Call("upload", [path |-> FileName(rid, d.files.list[i]),
                        file |-> d.files.list[i]])]

\* what the map callback returns for one file
UploadedFile(rid, file) ==
    [report_id |-> rid,
     file_url |-> PublicUrl(FileName(rid, file)),
     file_type |-> file.type,
     uploaded_by |-> session]

\* uploadedFiles: Promise.all keeps the order of the promises
uploadedFiles(rid, d) ==
    [i \in 1..Len(d.files.list) |-> UploadedFile(rid, d.files.list[i])]

\* the server-side procedure update_report_with_categories: the report row
\* is updated and its category assignments are replaced, together
RpcReports(rid, rd) ==
    [i \in 1..Len(reports) |->
        IF reports[i].id = rid
        THEN [id |-> rid, title |-> rd.title, description |-> rd.description,
              incident_date |-> rd.incident_date,
              incident_time |-> rd.incident_time, location |-> rd.location,
              main_category_id |-> rd.main_category_id,
              user_id |-> rd.user_id]
        ELSE reports[i]]
RpcAssignments(rid, cats) ==
    RowsNotOf(assignments, rid) \o
    [i \in 1..Len(cats) |->
        [report_id |-> rid, subcategory_id |-> cats[i].subcategory_id,
         main_category_id |-> cats[i].main_category_id,
         is_primary |-> cats[i].is_primary]]

\* mutants of Catch
Catch_Rollback ==
    /\ toasts' = Append(toasts, GenericFailure)
    /\ pc' = "done"
    /\ reports' = SelectSeq(reports, LAMBDA r : r.id # newReportId)
    /\ assignments' = RowsNotOf(assignments, newReportId)
    /\ UNCHANGED <<navigated, evidence, storage, formVars>>
Catch_Navigates ==
    /\ toasts' = Append(toasts, GenericFailure)
    /\ pc' = "done"
    /\ navigated' = TRUE
    /\ UNCHANGED <<db, formVars>>

\* the catch block: the generic notification, nothing else
Catch ==
    /\ toasts' = Append(toasts, GenericFailure)
    /\ pc' = "done"
    /\ UNCHANGED <<navigated, db, formVars>>

\* the success notification, then navigate("/dashboard")
Finish(t) ==
    /\ toasts' = Append(toasts, t)
    /\ navigated' = TRUE
    /\ pc' = "done"

\* mutant of NoSession: the session check is left out
NoSession_Never == FALSE
\* `!session?.user?.id`
NoSession == session = Null

\* mutant of EditMode: the update branch is never taken
EditMode_Never == FALSE
\* `if (id)`
EditMode == id # NoId

\* onSubmit from its call to its first await (or its return)
Submit ==
    /\ pc = "idle"
    /\ data' = form
    /\ newReportId' = NoId
    /\ IF NoSession
       THEN /\ toasts' = <<AuthError>>
            /\ calls' = <<>>
            /\ pc' = "done"
       ELSE /\ toasts' = <<>>
            /\ IF EditMode
               THEN /\ calls' = <<Call("rpc",
                                      [p_report_id |-> id,
                                       p_report_data |-> reportData(form),
                                       p_categories |-> p_categories(form)])>>
                    /\ pc' = "rpc"
               ELSE /\ calls' = <<Call("insert_report", reportData(form))>>
                    /\ pc' = "insert_report"
    /\ UNCHANGED <<env, formVars, navigated, db, svc>>

RpcOk ==
    /\ pc = "rpc"
    /\ calls' = SetResult(calls, 1, "ok")
    /\ reports' = RpcReports(calls[1].arg.p_report_id, calls[1].arg.p_report_data)
    /\ assignments' = RpcAssignments(calls[1].arg.p_report_id, calls[1].arg.p_categories)
    /\ Finish(UpdatedToast)
    /\ UNCHANGED <<env, formVars, data, newReportId, evidence, storage, svc>>

RpcError ==
    /\ pc = "rpc"
    /\ calls' = SetResult(calls, 1, "error")
    /\ Catch
    /\ UNCHANGED <<env, data, newReportId, svc>>

\* every upload is started; onSubmit waits in Promise.all
StartUploads(rid, cs) ==
    /\ calls' = cs \o UploadCalls(rid, data)
    /\ pc' = "uploads"
    /\ UNCHANGED <<toasts, navigated>>

\* the create path after the category step
AfterCategories(rid, cs) ==
    IF HasFiles(data)
    THEN StartUploads(rid, cs)
    ELSE /\ calls' = cs
         /\ Finish(CreatedToast)

\* insert(reportData).select().single(): the stored row, with its identifier
NewRow(rd) ==
    [id |-> NextReportId, title |-> rd.title, description |-> rd.description,
     incident_date |-> rd.incident_date, incident_time |-> rd.incident_time,
     location |-> rd.location, main_category_id |-> rd.main_category_id,
     user_id |-> rd.user_id]

\* mutant of NeedsCategoryInsert: the category step is skipped
NeedsCategoryInsert_Never(d) == FALSE
\* `data.categories.length > 0`
NeedsCategoryInsert(d) == Len(d.categories) > 0

InsertReportOk ==
    /\ pc = "insert_report"
    /\ LET newReport == NewRow(calls[1].arg)
           cs == SetResult(calls, 1, "ok")
       IN  /\ reports' = Append(reports, newReport)
           /\ newReportId' = newReport.id
           /\ IF NeedsCategoryInsert(data)
              THEN /\ calls' = Append(cs, Call("insert_assignments",
                                               CategoryRows(newReport.id, data)))
                   /\ pc' = "insert_assignments"
                   /\ UNCHANGED <<toasts, navigated>>
              ELSE AfterCategories(newReport.id, cs)
    /\ UNCHANGED <<env, formVars, data, assignments, evidence, storage, svc>>

InsertReportError ==
    /\ pc = "insert_report"
    /\ calls' = SetResult(calls, 1, "error")
    /\ Catch
    /\ UNCHANGED <<env, data, newReportId, svc>>

InsertCategoriesOk ==
    /\ pc = "insert_assignments"
    /\ assignments' = assignments \o calls[Len(calls)].arg
    /\ AfterCategories(newReportId, SetResult(calls, Len(calls), "ok"))
    /\ UNCHANGED <<env, formVars, data, newReportId, reports, evidence, storage, svc>>

InsertCategoriesError ==
    /\ pc = "insert_assignments"
    /\ calls' = SetResult(calls, Len(calls), "error")
    /\ Catch
    /\ UNCHANGED <<env, data, newReportId, svc>>

\* mutant of AllUploaded: the first finished upload resumes onSubmit
AllUploaded_Any(cs) == \E i \in UploadIdx(cs) : cs[i].result = "ok"

\* Promise.all(uploadPromises) is fulfilled: every promise is
AllUploaded(cs) == \A i \in UploadIdx(cs) : cs[i].result = "ok"

\* one upload answers without error; Promise.all resumes onSubmit once all have
UploadOk ==
    \E i \in UploadIdx(calls) :
        /\ Pending(i)
        /\ storage' = storage \cup {calls[i].arg.path}
        /\ LET cs == SetResult(calls, i, "ok")
           IN  IF pc = "uploads" /\ AllUploaded(cs)
               THEN /\ calls' = Append(cs, Call("insert_evidence",
                                                uploadedFiles(newReportId, data)))
                    /\ pc' = "insert_evidence"
               ELSE /\ calls' = cs
                    /\ pc' = pc
        /\ UNCHANGED <<env, formVars, data, newReportId, toasts, navigated,
                       reports, assignments, evidence, svc>>

\* one upload answers with an error: its promise is rejected, and with the
\* first rejection Promise.all is, which takes onSubmit to its catch block
UploadError ==
    \E i \in UploadIdx(calls) :
        /\ Pending(i)
        /\ calls' = SetResult(calls, i, "error")
        /\ IF pc = "uploads"
           THEN Catch
           ELSE UNCHANGED <<pc, toasts, navigated, db, formVars>>
        /\ UNCHANGED <<env, data, newReportId, svc>>

InsertEvidenceOk ==
    /\ pc = "insert_evidence"
    /\ evidence' = evidence \o calls[Len(calls)].arg
    /\ calls' = SetResult(calls, Len(calls), "ok")
    /\ Finish(CreatedToast)
    /\ UNCHANGED <<env, formVars, data, newReportId, reports,
                   assignments, storage, svc>>

InsertEvidenceError ==
    /\ pc = "insert_evidence"
    /\ calls' = SetResult(calls, Len(calls), "error")
    /\ Catch
    /\ UNCHANGED <<env, data, newReportId, svc>>

\* ------------------------------------------------------ specification
SvcIdle == [pc |-> "idle", op |-> "none", n |-> 0,
            answer |-> [data |-> <<>>, error |-> "<null>"],
            out |-> [kind |-> "return", value |-> <<>>]]

InitBackend(row, asg) ==
    /\ reports = <<row>>
    /\ assignments = [i \in 1..Len(asg) |-> AssignmentRow(ExistingId, asg[i], "m1")]
    /\ evidence = <<>>
    /\ storage = {}

\* the category assignments the existing report may have
InitialCats == {[i \in 1..k |-> IF i % 2 = 1 THEN "s2" ELSE "s1"] : k \in 0..MaxCats}

DefaultRow == CHOOSE r \in InitialRows : r.incident_date = NoDate /\ r.location = Null /\ r.incident_time = Null

Init ==
    /\ id \in {NoId, ExistingId}
    /\ session \in {Null, "u1"}
    /\ now \in NowValues
    /\ form = defaultValues
    /\ isDirty = FALSE
    /\ query = [status |-> IF id # NoId THEN "fetching" ELSE "disabled", data |-> <<>>]
    /\ pc = "idle"
    /\ data = defaultValues
    /\ newReportId = NoId
    /\ calls = <<>>
    /\ toasts = <<>>
    /\ navigated = FALSE
    /\ \E row \in InitialRows, asg \in InitialCats :
          /\ id = NoId => row = DefaultRow /\ asg = <<>>
          /\ InitBackend(row, asg)
    /\ svc = SvcIdle

Next ==
    \/ FetchOk
    \/ FetchError
    \/ UserEdit
    \/ Submit
    \/ RpcOk
    \/ RpcError
    \/ InsertReportOk
    \/ InsertReportError
    \/ InsertCategoriesOk
    \/ InsertCategoriesError
    \/ UploadOk
    \/ UploadError
    \/ InsertEvidenceOk
    \/ InsertEvidenceError

Spec == Init /\ [][Next]_vars

\* ------------------------------------------------- report data service
\* the service's ReportData and EvidenceData arguments
SvcReportInputs ==
    [title : {"t1"}, description : {"d1"}, category_id : {"c1"},
     incident_date : {NoDate, 1}, incident_time : {Null, "10:00"},
     location : {Null}, user_id : {"u1"}]
SvcEvidenceInputs ==
    [file_url : {PublicUrl(FileName(ExistingId, f)) : f \in FileObjs},
     file_type : {"image/png"}, description : {Null},
     report_id : {ExistingId}, uploaded_by : {"u1"}]

Throw(e) == [kind |-> "throw", value |-> e]
Return(v) == [kind |-> "return", value |-> v]
\* the answer { data, error } of a data-access call
Answer(d, e) == [data |-> d, error |-> e]

\* mutant of createReport: the error is swallowed
createReport_Swallow(answer) == Return(answer.data)

\* createReport after its await: `if (error) throw error; return data`
createReport(answer) ==
    IF answer.error # Null THEN Throw(answer.error) ELSE Return(answer.data)

\* updateReport after its await: `if (error) throw error; return data`
updateReport(answer) ==
    IF answer.error # Null THEN Throw(answer.error) ELSE Return(answer.data)

\* saveEvidence after its await: `if (error) throw error`
saveEvidence(answer) ==
    IF answer.error # Null THEN Throw(answer.error) ELSE Return(<<>>)

\* the rows saveEvidence hands to insert
EvidenceRows(evidenceData) ==
    [i \in 1..Len(evidenceData) |->
        [file_url |-> evidenceData[i].file_url,
         file_type |-> evidenceData[i].file_type,
         description |-> evidenceData[i].description,
         report_id |-> evidenceData[i].report_id,
         uploaded_by |-> evidenceData[i].uploaded_by]]

SvcRow(rid, rd) ==
    [id |-> rid, title |-> rd.title, description |-> rd.description,
     category_id |-> rd.category_id, incident_date |-> rd.incident_date,
     incident_time |-> rd.incident_time, location |-> rd.location,
     user_id |-> rd.user_id]

SvcFrame == UNCHANGED <<env, formVars, pc, data, newReportId, toasts, navigated>>

\* a service function is called and runs to its await
SvcInvoke(op, request) ==
    /\ svc.pc \in {"idle", "settled"}
    /\ svc.n < MaxSvcCalls
    /\ svc' = [SvcIdle EXCEPT !.pc = "awaiting", !.op = op, !.n = svc.n + 1]
    /\ calls' = <<request>>
    /\ UNCHANGED db
    /\ SvcFrame

InvokeCreateReport ==
    \E rd \in SvcReportInputs : SvcInvoke("createReport", Call("insert_report", rd))

InvokeUpdateReport ==
    \E rid \in 0..MaxSvcCalls, rd \in SvcReportInputs :
        SvcInvoke("updateReport", Call("update_report", [id |-> rid, row |-> rd]))

InvokeSaveEvidence ==
    \E ev \in SeqsUpTo(SvcEvidenceInputs, MaxFiles) :
        SvcInvoke("saveEvidence", Call("insert_evidence", EvidenceRows(ev)))

Awaiting(op) == svc.pc = "awaiting" /\ svc.op = op
\* the function settles: `answer` is what the call gave, `out` what the function does
Settled(answer, out) ==
    svc' = [svc EXCEPT !.pc = "settled", !.answer = answer, !.out = out]

CreateReportOk ==
    /\ Awaiting("createReport")
    /\ LET row == SvcRow(NextReportId, calls[1].arg)
       IN  /\ reports' = Append(reports, row)
           /\ Settled(Answer(<<row>>, Null), createReport(Answer(<<row>>, Null)))
    /\ calls' = SetResult(calls, 1, "ok")
    /\ UNCHANGED <<assignments, evidence, storage>>
    /\ SvcFrame

UpdateReportOk ==
    /\ Awaiting("updateReport")
    /\ HasReport(calls[1].arg.id)
    /\ LET row == SvcRow(calls[1].arg.id, calls[1].arg.row)
       IN  /\ reports' = [i \in 1..Len(reports) |->
                            IF reports[i].id = row.id THEN row ELSE reports[i]]
           /\ Settled(Answer(<<row>>, Null), updateReport(Answer(<<row>>, Null)))
    /\ calls' = SetResult(calls, 1, "ok")
    /\ UNCHANGED <<assignments, evidence, storage>>
    /\ SvcFrame

SaveEvidenceOk ==
    /\ Awaiting("saveEvidence")
    /\ evidence' = evidence \o calls[1].arg
    /\ Settled(Answer(<<>>, Null), saveEvidence(Answer(<<>>, Null)))
    /\ calls' = SetResult(calls, 1, "ok")
    /\ UNCHANGED <<reports, assignments, storage>>
    /\ SvcFrame

\* the data-access call answers with an error
SvcError(op, answer, out) ==
    /\ Awaiting(op)
    /\ Settled(answer, out)
    /\ calls' = SetResult(calls, 1, "error")
    /\ UNCHANGED db
    /\ SvcFrame

CreateReportError ==
    \E e \in Errors : SvcError("createReport", Answer(<<>>, e), createReport(Answer(<<>>, e)))
UpdateReportError ==
    \E e \in Errors : SvcError("updateReport", Answer(<<>>, e), updateReport(Answer(<<>>, e)))
SaveEvidenceError ==
    \E e \in Errors : SvcError("saveEvidence", Answer(<<>>, e), saveEvidence(Answer(<<>>, e)))

SvcInit ==
    /\ Init
    /\ id = NoId
    /\ session = "u1"
    /\ now = 1

SvcNext ==
    \/ InvokeCreateReport
    \/ InvokeUpdateReport
    \/ InvokeSaveEvidence
    \/ CreateReportOk
    \/ CreateReportError
    \/ UpdateReportOk
    \/ UpdateReportError
    \/ SaveEvidenceOk
    \/ SaveEvidenceError

SvcSpec == SvcInit /\ [][SvcNext]_vars

\* ============================================================== claims
OpsIssued == {calls[i].op : i \in 1..Len(calls)}
Issued(op) == op \in OpsIssued
Failed == \E i \in 1..Len(calls) : calls[i].result = "error"
Shown(t) == \E i \in 1..Len(toasts) : toasts[i] = t
PendingUploads == {i \in UploadIdx(calls) : Pending(i)}
AttachedFiles == IF data.files.defined THEN data.files.list ELSE <<>>
CreateSucceeded == id = NoId /\ pc = "done" /\ navigated

\* C1: onSubmit without an authenticated user issues no backend request of
\* any kind, leaves the backend as it was, shows the authentication error
\* and does not navigate.
C1_NoSessionNoWrites ==
    (session = Null /\ pc # "idle") =>
        /\ pc = "done"
        /\ calls = <<>>
        /\ toasts = <<AuthError>>
        /\ ~navigated
        /\ Len(reports) = 1 /\ evidence = <<>> /\ storage = {}
        /\ \A i \in 1..Len(assignments) : assignments[i].report_id = ExistingId

C1_Witness ==
    /\ session = Null /\ pc = "done"
    /\ HasFiles(data) /\ Len(data.categories) > 0

\* the outcome of a failed onSubmit
C2_Failed ==
    Failed =>
        /\ pc = "done"
        /\ Shown(GenericFailure)
        /\ ~Shown(UpdatedToast) /\ ~Shown(CreatedToast)
        /\ ~navigated
\* a step in which a request is answered with an error
C2_FailureStep ==
    (\E i \in 1..Len(calls) : calls'[i].result = "error" /\ calls[i].result # "error")
        => form' = form

\* C2: once any step of onSubmit has failed, the generic failure
\* notification is shown, no success notification is, there is no navigation
\* to the dashboard, and the step that records the failure leaves the form's
\* field values as they were.
C2_FailureHandling == []C2_Failed /\ [][C2_FailureStep]_vars

C2_Witness ==
    /\ Issued("insert_evidence")
    /\ calls[Len(calls)].result = "error"
    /\ pc = "done"

\* C3: in edit mode with an authenticated user, onSubmit issues exactly one
\* request, the call of the combined update procedure, with one entry per
\* chosen subcategory, and no insert or upload, whatever the call's answer
\* and whatever files are attached.
C3_EditOneRpc ==
    (id # NoId /\ session # Null /\ pc # "idle") =>
        /\ Len(calls) = 1
        /\ calls[1].op = "rpc"
        /\ calls[1].arg.p_report_id = id
        /\ Len(calls[1].arg.p_categories) = Len(data.categories)
        /\ \A i \in 1..Len(data.categories) :
              /\ calls[1].arg.p_categories[i].subcategory_id = data.categories[i]
              /\ calls[1].arg.p_categories[i].main_category_id = data.main_category_id

C3_Witness ==
    /\ id # NoId /\ pc = "done" /\ Failed
    /\ HasFiles(data) /\ Len(data.categories) = MaxCats

\* C4: a create-path onSubmit that succeeds with N chosen categories leaves
\* exactly N category-assignment rows, the i-th for the i-th chosen
\* subcategory, each for the new report and the submitted main category;
\* with N = 0 no category-assignment insert is issued.
C4_CategoryRows ==
    CreateSucceeded =>
        LET rows == RowsOf(assignments, newReportId)
            N == Len(data.categories)
        IN  /\ newReportId # ExistingId /\ HasReport(newReportId)
            /\ Len(rows) = N /\ Len(assignments) = N
            /\ \A i \in 1..N :
                  /\ rows[i].subcategory_id = data.categories[i]
                  /\ rows[i].main_category_id = data.main_category_id
            /\ N = 0 => ~Issued("insert_assignments")

C4_Witness == CreateSucceeded /\ Len(data.categories) = MaxCats

\* C5: a create-path onSubmit that succeeds with K attached files leaves
\* exactly K evidence rows, the i-th for the new report and the public
\* address of the path "<new report id>/<name of the i-th file>"; with K = 0
\* no upload and no evidence insert is issued.
C5_EvidenceRows ==
    CreateSucceeded =>
        LET rows == RowsOf(evidence, newReportId)
            K == Len(AttachedFiles)
        IN  /\ Len(rows) = K /\ Len(evidence) = K
            /\ \A i \in 1..K :
                  /\ rows[i].file_url.path = <<newReportId, "/", AttachedFiles[i].name>>
                  /\ rows[i].file_url.path \in storage
                  /\ rows[i].file_type = AttachedFiles[i].type
            /\ K = 0 => ~Issued("upload") /\ ~Issued("insert_evidence")

C5_Witness == CreateSucceeded /\ Len(AttachedFiles) = MaxFiles

\* the place of a request in the create path
Rank(op) ==
    CASE op = "insert_report" -> 1
      [] op = "insert_assignments" -> 2
      [] op = "upload" -> 3
      [] op = "insert_evidence" -> 4
      [] OTHER -> 0

\* C6: on the create path the requests are issued in the order report
\* insert, category-assignment insert, uploads, evidence insert; nothing
\* follows the report insert before it has succeeded and given an
\* identifier; no upload starts before the category-assignment insert (due
\* when categories were chosen) has succeeded; every evidence row is of a
\* report row that exists.
C6_CreateOrder ==
    (id = NoId /\ session # Null) =>
        /\ \A i, j \in 1..Len(calls) : i < j => Rank(calls[i].op) <= Rank(calls[j].op)
        /\ Len(calls) > 1 =>
              /\ calls[1].op = "insert_report" /\ calls[1].result = "ok"
              /\ HasReport(newReportId) /\ newReportId # ExistingId
        /\ Issued("upload") =>
              /\ Len(data.categories) > 0 => Issued("insert_assignments")
              /\ \A i \in 1..Len(calls) :
                    calls[i].op = "insert_assignments" => calls[i].result = "ok"
        /\ \A i \in 1..Len(calls) :
              /\ calls[i].op = "insert_assignments" =>
                    \A k \in 1..Len(calls[i].arg) : calls[i].arg[k].report_id = newReportId
              /\ calls[i].op = "insert_evidence" =>
                    \A k \in 1..Len(calls[i].arg) : calls[i].arg[k].report_id = newReportId
        /\ \A k \in 1..Len(evidence) : HasReport(evidence[k].report_id)

C6_Witness ==
    /\ CreateSucceeded
    /\ OpsIssued = {"insert_report", "insert_assignments", "upload", "insert_evidence"}

\* C7 as claimed: neither the evidence insert nor the end of onSubmit comes
\* while an upload of the submission is in flight.
C7_Original ==
    (pc = "done" \/ Issued("insert_evidence")) => PendingUploads = {}

\* C7 as amended: the evidence insert and the success notification come only
\* after every upload has finished without error; onSubmit ends with uploads
\* still in flight only when an upload has failed, and then with the generic
\* failure notification.
C7_UploadsAwaited ==
    /\ (Issued("insert_evidence") \/ Shown(CreatedToast)) => AllUploaded(calls)
    /\ (pc = "done" /\ PendingUploads # {}) =>
          /\ \E i \in UploadIdx(calls) : calls[i].result = "error"
          /\ Shown(GenericFailure)

C7_Witness ==
    /\ Issued("insert_evidence")
    /\ Cardinality(UploadIdx(calls)) = MaxFiles

\* the record the fetch gave, and the list of its subcategory identifiers
Fetched == query.data[1]
FetchedCategories ==
    [i \in 1..Len(Fetched.report_category_assignments) |->
        Fetched.report_category_assignments[i].subcategory_id]
\* the fields C8 states alike as claimed and as amended
C8_FieldsFromRecord ==
    /\ form.title = Fetched.title
    /\ form.description = Fetched.description
    /\ form.main_category_id = Fetched.main_category_id
    /\ form.categories = FetchedCategories
    /\ form.incident_time = IF Fetched.incident_time = Null THEN "" ELSE Fetched.incident_time
    /\ form.location = IF Fetched.location = Null THEN "" ELSE Fetched.location
    /\ Fetched.incident_date # NoDate =>
          /\ ToISODate(form.incident_date) = Fetched.incident_date
          /\ form.incident_date % TicksPerDay = 0
C8_FetchFailed ==
    (query.status = "error" /\ ~isDirty) => form = defaultValues

\* C8 as claimed: after a successful fetch every field holds the record's
\* value, and an absent incident date, like an absent time or location, gives
\* an empty value.
C8_Original ==
    id # NoId =>
        /\ (query.status = "success" /\ ~isDirty) =>
              /\ C8_FieldsFromRecord
              /\ Fetched.incident_date = NoDate => form.incident_date = NoDate
        /\ C8_FetchFailed

\* the loaded form, in every state
C8_Loaded ==
    id # NoId =>
        /\ (query.status = "success" /\ ~isDirty) =>
              /\ C8_FieldsFromRecord
              /\ Fetched.incident_date = NoDate => form.incident_date = now
        /\ C8_FetchFailed
\* the step of a failing fetch, and the steps after it
C8_FetchStep ==
    /\ (query.status = "fetching" /\ query'.status = "error") => form' = form
    /\ query.status = "error" => query'.status = "error"

\* C8 as amended: after a successful fetch every field holds the record's
\* value; an absent time or location gives the empty string, an absent
\* incident date gives the current instant; a failed fetch leaves the form
\* as it was, and the query stays failed.
C8_LoadPopulates == []C8_Loaded /\ [][C8_FetchStep]_vars

C8_Witness ==
    /\ query.status = "success" /\ ~isDirty
    /\ Fetched.incident_date = NoDate /\ Fetched.location = Null
    /\ Len(form.categories) = MaxCats

\* C9: on the create path nothing that a request has written is taken back:
\* after every step, failed ones included, the report row, the
\* category-assignment rows and the uploaded files of the requests that
\* succeeded are in the backend, and no request other than the four inserts
\* and uploads is ever issued.
C9_NoRollback ==
    (id = NoId /\ session # Null) =>
        /\ OpsIssued \subseteq {"insert_report", "insert_assignments", "upload", "insert_evidence"}
        /\ \A i \in 1..Len(calls) :
              calls[i].result = "ok" =>
                 CASE calls[i].op = "insert_report" ->
                        /\ HasReport(newReportId)
                        /\ ReportRow(newReportId).title = calls[i].arg.title
                   [] calls[i].op = "insert_assignments" ->
                        RowsOf(assignments, newReportId) = calls[i].arg
                   [] calls[i].op = "upload" ->
                        calls[i].arg.path \in storage
                   [] calls[i].op = "insert_evidence" ->
                        RowsOf(evidence, newReportId) = calls[i].arg
                   [] OTHER -> FALSE

\* a failed submission has left a report row without categories and evidence
C9_Witness ==
    /\ id = NoId /\ pc = "done" /\ Failed
    /\ Len(data.categories) > 0 /\ HasFiles(data)
    /\ HasReport(newReportId)
    /\ RowsOf(assignments, newReportId) = <<>>
    /\ RowsOf(evidence, newReportId) = <<>>

\* C10: a service function issues exactly one data-access call; when the
\* call answers with an error the function throws that very value; when it
\* answers without, createReport and updateReport return the one row of the
\* answer and saveEvidence returns nothing.
C10_ServicePropagates ==
    /\ svc.pc # "idle" => Len(calls) = 1
    /\ svc.pc = "settled" =>
          /\ svc.answer.error # Null =>
                /\ svc.out.kind = "throw"
                /\ svc.out.value = svc.answer.error
                /\ calls[1].result = "error"
          /\ svc.answer.error = Null =>
                /\ svc.out.kind = "return"
                /\ svc.op \in {"createReport", "updateReport"} =>
                      /\ svc.out.value = svc.answer.data
                      /\ Len(svc.out.value) = 1
                /\ svc.op = "saveEvidence" => svc.out.value = <<>>

C10_Witness ==
    /\ svc.pc = "settled" /\ svc.op = "createReport"
    /\ svc.out = [kind |-> "throw", value |-> "e2"]
    /\ svc.n = MaxSvcCalls

====
